---- MODULE Spec2Model ----
(***************************************************************************)
(* astro-frontmatter-components: the schema registry, the virtual-module   *)
(* store and the aggregate block validator, in the revisions of the        *)
(* integration that the repository holds:                                  *)
(*   "part_004"    src/unnamed/part_004 with src/src/schema.ts             *)
(*                 (self-declared type, createSchema(type, builder))       *)
(*   "integration" src/src/integration.ts with src/unnamed/part_002        *)
(*                 (type derived from the file name, createSchema(builder))*)
(*   "part_003"    src/unnamed/part_003 (file-name type, file watcher)     *)
(* JavaScript strings are sequences of one-character strings.              *)
(***************************************************************************)
EXTENDS Integers, Sequences, FiniteSets, TLC

VARIABLES revision, components, virtualModules, validator, logged, last, tasks, scan

vars == <<revision, components, virtualModules, validator, logged, last, tasks, scan>>

(***************************************************************************)
(* Characters and strings                                                  *)
(***************************************************************************)
Letters ==
  {"a","b","c","d","e","f","g","h","i","j","k","l","m","n","o","p","q","r","s",
   "t","u","v","w","x","y","z","A","B","C","D","E","F","G","H","I","J","K","L",
   "M","N","O","P","Q","R","S","T","U","V","W","X","Y","Z"}

Digits == {"0","1","2","3","4","5","6","7","8","9"}

\* the character class [a-zA-Z0-9_$]
IdentChars == Letters \cup Digits \cup {"_", "$"}

\* str.replace(/[^a-zA-Z0-9_$]/g, '_')
ReplaceNonIdent(str) ==
  [i \in 1..Len(str) |-> IF str[i] \in IdentChars THEN str[i] ELSE "_"]

\* str.replace(/^[0-9]/, '_$&')
PrefixLeadingDigit(str) ==
  IF Len(str) > 0 /\ str[1] \in Digits THEN <<"_">> \o str ELSE str

\* a slip that prefixes every string, not only those with a leading digit
sanitizeTypeAlwaysPrefix(str) == <<"_">> \o ReplaceNonIdent(str)

sanitizeType(str) == PrefixLeadingDigit(ReplaceNonIdent(str))

toIdentifier(str) == PrefixLeadingDigit(ReplaceNonIdent(str))

\* str.split(sep), sep one character: the segments between the separators
RECURSIVE SplitFrom(_, _, _, _)
SplitFrom(str, sep, i, cur) ==
  IF i > Len(str) THEN <<cur>>
  ELSE IF str[i] = sep THEN <<cur>> \o SplitFrom(str, sep, i + 1, <<>>)
  ELSE SplitFrom(str, sep, i + 1, Append(cur, str[i]))

Split(str, sep) == SplitFrom(str, sep, 1, <<>>)

StartsWithAt(str, pat, i) ==
  /\ i + Len(pat) - 1 <= Len(str)
  /\ \A k \in 1..Len(pat) : str[i + k - 1] = pat[k]

\* str.endsWith(pat)
EndsWith(str, pat) ==
  Len(pat) <= Len(str) /\ StartsWithAt(str, pat, Len(str) - Len(pat) + 1)

\* str.replace(pat, ''), pat a string: the first occurrence only
RemoveFirst(str, pat) ==
  LET hits == {i \in 1..Len(str) : StartsWithAt(str, pat, i)}
  IN IF hits = {} THEN str
     ELSE LET at == CHOOSE i \in hits : \A j \in hits : i <= j
          IN SubSeq(str, 1, at - 1) \o SubSeq(str, at + Len(pat), Len(str))

DotAstro == <<".", "a", "s", "t", "r", "o">>

\* path.split('/').pop()?.replace('.astro', '')
getType(path) ==
  LET segs == Split(path, "/") IN RemoveFirst(segs[Len(segs)], DotAstro)

(***************************************************************************)
(* Values: schema builders, files, registry entries                        *)
(***************************************************************************)
\* the JavaScript value undefined, where a string is expected
Undefined == <<"undefined">>

\* the key an object property gets when it is written with value t as its name
PropertyKey(t) ==
  IF t = Undefined THEN <<"u", "n", "d", "e", "f", "i", "n", "e", "d">> ELSE t

Hero == <<"H", "e", "r", "o">>
CTA == <<"C", "T", "A">>
HeroSection == <<"h", "-", "s">>

PathAHero == <<"/", "a", "/">> \o Hero \o DotAstro
PathBHero == <<"/", "b", "/">> \o Hero \o DotAstro
PathACTA == <<"/", "a", "/">> \o CTA \o DotAstro
PathAHeroSection == <<"/", "a", "/">> \o HeroSection \o DotAstro

\* /a/h_s.astro: a file name that differs from h-s.astro in one character
PathAHeroSnake == <<"/", "a", "/", "h", "_", "s", ".", "a", "s", "t", "r", "o">>

Fields == {"title", "heading", "speed"}

\* what builder(c) returns: a field validator per field name ("none": no such field)
Shape(name) ==
  CASE name = "hero" -> [title |-> "string", heading |-> "none", speed |-> "numberDefault5"]
    [] name = "heroTitle" -> [title |-> "string", heading |-> "none", speed |-> "none"]
    [] name = "cta" -> [title |-> "none", heading |-> "string", speed |-> "none"]
    [] OTHER -> [title |-> "none", heading |-> "none", speed |-> "none"]

\* a plain function (c) => ({...}): callable, no _registryId, no type;
\* returns says what calling it yields: "raw" (a raw shape), "zobject" (a
\* z.object(), which has .shape) or "nonobject"
Builder(shape, returns) ==
  [callable |-> TRUE, rid |-> "none", type |-> Undefined, shape |-> shape,
   returns |-> returns]

\* Symbol('schema') of the registry on globalThis, and a symbol of another registry
OwnId == "own"
ForeignId == "foreign"

\* a slip that stores the declared type as written
createSchemaRaw(type, builder) ==
  [builder EXCEPT !.type = type, !.rid = OwnId]

\* createSchema(type, builder) of src/src/schema.ts
createSchema(type, builder) ==
  [builder EXCEPT !.type = sanitizeType(type), !.rid = OwnId]

\* createSchema(builder) of src/unnamed/part_002
createSchemaUntyped(builder) == [builder EXCEPT !.rid = OwnId]

isSchemaBuilder(schema, registryId) ==
  schema.callable /\ schema.rid # "none" /\ schema.rid = registryId

\* registry.components: own properties in insertion order
NoEntry == [key |-> <<>>, type |-> <<>>, path |-> <<>>, schema |-> Builder("none", "raw")]

Has(reg, key) == \E i \in 1..Len(reg) : reg[i].key = key

Get(reg, key) ==
  IF Has(reg, key) THEN reg[CHOOSE i \in 1..Len(reg) : reg[i].key = key] ELSE NoEntry

\* reg[key] = entry: an existing property keeps its place, a new one goes last
Put(reg, key, entry) ==
  IF Has(reg, key)
  THEN [i \in 1..Len(reg) |-> IF reg[i].key = key THEN entry ELSE reg[i]]
  ELSE Append(reg, entry)

RECURSIVE Without(_, _)
\* delete reg[key]
Without(reg, key) ==
  IF reg = <<>> THEN <<>>
  ELSE IF Head(reg).key = key THEN Without(Tail(reg), key)
  ELSE <<Head(reg)>> \o Without(Tail(reg), key)

Entry(type, path, schema) ==
  [key |-> PropertyKey(type), type |-> type, path |-> path, schema |-> schema]

\* one logger / console call
Log(level, msg, path, type, other) ==
  [level |-> level, msg |-> msg, path |-> path, type |-> type, other |-> other,
   types |-> <<>>]

(***************************************************************************)
(* Registration                                                            *)
(***************************************************************************)
\* constructSchema of src/unnamed/part_004
constructSchema(reg, path, schema) ==
  IF ~isSchemaBuilder(schema, OwnId)
  THEN [components |-> reg, logged |-> <<Log("error", "InvalidSchema", path, <<>>, <<>>)>>]
  ELSE IF Has(reg, PropertyKey(schema.type))
  THEN [components |-> reg,
        logged |-> <<Log("error", "Duplicate", path, schema.type,
                         Get(reg, PropertyKey(schema.type)).path)>>]
  ELSE [components |-> Put(reg, PropertyKey(schema.type), Entry(schema.type, path, schema)),
        logged |-> <<Log("info", "Registered", path, <<>>, <<>>)>>]

\* buildAstroBlock of src/src/integration.ts
buildAstroBlock(reg, path, schema) ==
  IF ~isSchemaBuilder(schema, OwnId)
  THEN [components |-> reg, ret |-> FALSE,
        logged |-> <<Log("error", "InvalidSchema", path, <<>>, <<>>)>>]
  ELSE LET type == getType(path)
       IN [components |-> Put(reg, PropertyKey(type), Entry(type, path, schema)),
           ret |-> TRUE,
           logged |-> <<Log("info", "Registered", <<>>, type, <<>>)>>]

\* buildAstroBlock of src/unnamed/part_003; block is the loaded module
\* {default, schema}: exported says whether it has a schema export at all
buildAstroBlockWatch(reg, path, block) ==
  LET type == getType(path)
      key == PropertyKey(type)
      prevPath == Get(reg, key).path
      deleted == Without(reg, key)
      schema == block.schema
  IN IF ~block.exported
     THEN [components |-> deleted, ret |-> FALSE, logged |-> <<>>]
     ELSE IF Has(deleted, key) /\ prevPath # path
     THEN [components |-> deleted, ret |-> FALSE,
           logged |-> <<Log("warn", "Duplicate", path, type, Get(deleted, key).path)>>]
     ELSE IF ~schema.callable
     THEN [components |-> deleted, ret |-> FALSE,
           logged |-> <<Log("error", "NotAFunction", path, <<>>, <<>>)>>]
     ELSE IF schema.returns = "nonobject"
     THEN [components |-> deleted, ret |-> FALSE,
           logged |-> <<Log("error", "NotARawObject", path, <<>>, <<>>)>>]
     ELSE IF schema.returns = "zobject"
     THEN [components |-> deleted, ret |-> FALSE,
           logged |-> <<Log("error", "IsZodObject", path, <<>>, <<>>)>>]
     ELSE [components |-> Put(deleted, key, Entry(type, path, schema)),
           ret |-> ~Has(deleted, key),
           logged |-> IF ~Has(deleted, key)
                      THEN <<Log("info", "Registered", path, <<>>, <<>>)>>
                      ELSE <<>>]

(***************************************************************************)
(* Files, bundles and the virtual-module store                             *)
(***************************************************************************)
\* a source file, by what its metadata block holds: kind "nofrontmatter",
\* "noschema" (no export declaration) or "schema" (it exports schema, the value);
\* and, for the files of a scan, by where the pipeline stops on it: "parseerror"
\* (the block does not parse), "bundleerror" (esbuild.build rejects),
\* "emptyoutput" (esbuild gives no text), "neverbundles" (esbuild never settles)
File(kind, schema) == [kind |-> kind, schema |-> schema]

\* esbuild's output for the file's imports and exports: code that evaluates to
\* a module exporting the schema value
Bundle(file) == [exports |-> file.schema]

NoCode == [exports |-> Builder("none", "nonobject")]

\* what evaluating the code yields: the module's exports
Evaluate(code) == [exported |-> code # NoCode, schema |-> code.exports]

\* createHash('md5').update(path).digest('hex'): a digest per path (two hex
\* digits here, thirty-two in the program), distinct for the paths used
md5hex(path) ==
  CASE path = PathAHero -> <<"0", "a">>
    [] path = PathBHero -> <<"7", "f">>
    [] path = PathACTA -> <<"c", "3">>
    [] path = PathAHeroSection -> <<"4", "e">>
    [] path = PathAHeroSnake -> <<"5", "b">>
    [] OTHER -> <<"9", "9">>

Nul == "\\0"

\* toVirtual / virtual: `\0${id}`
toVirtual(id) == <<Nul>> \o id

VIRTUAL_NAME_ID ==
  <<"v", "i", "r", "t", "u", "a", "l", ":", "a", "s", "t", "r", "o", "-", "f",
    "r", "o", "n", "t", "m", "a", "t", "t", "e", "r", "-", "c", "m", "s">>

VIRTUAL_MAP_ID == VIRTUAL_NAME_ID \o <<":">>
VIRTUAL_MAP == toVirtual(VIRTUAL_MAP_ID)
VIRTUAL_NAME == toVirtual(VIRTUAL_NAME_ID)

\* 'virtual:schema:' of src/src/integration.ts
VIRTUAL_SCHEMA ==
  <<"v", "i", "r", "t", "u", "a", "l", ":", "s", "c", "h", "e", "m", "a", ":">>

StartsWith(str, pat) == StartsWithAt(str, pat, 1)

\* a slip that keeps what is stored
MapSetIfAbsent(map, key, value) ==
  [k \in DOMAIN map \cup {key} |-> IF k \in DOMAIN map THEN map[k] ELSE value]

\* Map.prototype.set: the last write under a key wins
MapSet(map, key, value) ==
  [k \in DOMAIN map \cup {key} |-> IF k = key THEN value ELSE map[k]]

\* virtualModules.get(id)?.code
CodeOf(map, id) == IF id \in DOMAIN map THEN map[id].code ELSE NoCode

\* load(id) of src/unnamed/part_004, for the schema modules
load(map, id) == IF StartsWith(id, VIRTUAL_MAP) THEN CodeOf(map, id) ELSE NoCode

\* load(id) of src/src/integration.ts, for the schema modules:
\* isVirtual(id) && id.includes('virtual:schema:')
loadSchemaModule(map, id) ==
  IF StartsWith(id, <<Nul>>) /\ \E i \in 1..Len(id) : StartsWithAt(id, VIRTUAL_SCHEMA, i)
  THEN CodeOf(map, id)
  ELSE NoCode

\* toVirtual(VIRTUAL_MAP_ID + createHash('md5').update(realPath).digest('hex'))
virtualIdOf(realPath) == toVirtual(VIRTUAL_MAP_ID \o md5hex(realPath))

\* virtual(`virtual:schema:${hash}`) of src/src/integration.ts
virtualSchemaIdOf(path) == toVirtual(VIRTUAL_SCHEMA \o md5hex(path))

\* resolve(realPath, server, logger) of src/unnamed/part_004 on a file
resolve(map, reg, realPath, file) ==
  IF file.kind = "nofrontmatter"
  THEN [virtualModules |-> map, components |-> reg, stored |-> FALSE, called |-> FALSE,
        logged |-> <<Log("warn", "NoFrontmatter", realPath, <<>>, <<>>)>>]
  ELSE IF file.kind = "noschema"
  THEN [virtualModules |-> map, components |-> reg, stored |-> FALSE, called |-> FALSE,
        logged |-> <<>>]
  ELSE LET virtualId == virtualIdOf(realPath)
           written == MapSet(map, virtualId, [code |-> Bundle(file), realPath |-> realPath])
           module == Evaluate(load(written, virtualId))
       IN IF module.exported
          THEN LET r == constructSchema(reg, realPath, module.schema)
               IN [virtualModules |-> written, components |-> r.components,
                   stored |-> TRUE, called |-> TRUE, logged |-> r.logged]
          ELSE [virtualModules |-> written, components |-> reg, stored |-> TRUE,
                called |-> FALSE, logged |-> <<>>]

\* one round of the loop of configureServer.handler of src/src/integration.ts
handler(map, reg, path, file) ==
  IF file.kind # "schema"
  THEN [virtualModules |-> map, components |-> reg, stored |-> FALSE, called |-> FALSE,
        ret |-> FALSE, logged |-> <<>>]
  ELSE LET virtualId == virtualSchemaIdOf(path)
           written == MapSet(map, virtualId, [code |-> Bundle(file), realPath |-> path])
           module == Evaluate(loadSchemaModule(written, virtualId))
       IN IF module.exported
          THEN LET r == buildAstroBlock(reg, path, module.schema)
               IN [virtualModules |-> written, components |-> r.components,
                   stored |-> TRUE, called |-> TRUE, ret |-> r.ret, logged |-> r.logged]
          ELSE [virtualModules |-> written, components |-> reg, stored |-> TRUE,
                called |-> FALSE, ret |-> FALSE, logged |-> <<>>]

RECURSIVE Normalize(_, _)
\* the segments of a path with '.', '' and '..' worked out, onto those in acc
Normalize(segs, acc) ==
  IF segs = <<>> THEN acc
  ELSE IF Head(segs) \in {<<>>, <<".">>} THEN Normalize(Tail(segs), acc)
  ELSE IF Head(segs) = <<".", ".">>
  THEN Normalize(Tail(segs), IF acc = <<>> THEN acc ELSE SubSeq(acc, 1, Len(acc) - 1))
  ELSE Normalize(Tail(segs), Append(acc, Head(segs)))

RECURSIVE JoinSegments(_)
\* '/' before each segment
JoinSegments(segs) ==
  IF segs = <<>> THEN <<>> ELSE <<"/">> \o Head(segs) \o JoinSegments(Tail(segs))

\* path.dirname of an absolute path
dirname(path) ==
  LET segs == Normalize(Split(path, "/"), <<>>)
  IN IF Len(segs) <= 1 THEN <<"/">> ELSE JoinSegments(SubSeq(segs, 1, Len(segs) - 1))

\* path.resolve(dir, id), dir absolute
pathResolve(dir, id) ==
  LET segs == IF StartsWith(id, <<"/">>) THEN Normalize(Split(id, "/"), <<>>)
              ELSE Normalize(Split(id, "/"), Normalize(Split(dir, "/"), <<>>))
  IN IF segs = <<>> THEN <<"/">> ELSE JoinSegments(segs)

\* the JavaScript value null
Null == <<"null">>

\* 'virtual:astro-frontmatter-components' of src/src/integration.ts
VIRTUAL ==
  <<"v", "i", "r", "t", "u", "a", "l", ":", "a", "s", "t", "r", "o", "-", "f",
    "r", "o", "n", "t", "m", "a", "t", "t", "e", "r", "-", "c", "o", "m", "p",
    "o", "n", "e", "n", "t", "s">>

DotSlash == <<".", "/">>

\* resolveId(id, importer) of src/unnamed/part_004
resolveId(map, id, importer) ==
  IF id = VIRTUAL_NAME_ID THEN VIRTUAL_NAME
  ELSE IF importer # Undefined /\ StartsWith(importer, VIRTUAL_MAP)
  THEN IF importer \in DOMAIN map THEN map[importer].realPath ELSE Undefined
  ELSE Undefined

\* resolveId(id, importer) of src/src/integration.ts
resolveIdSchema(map, id, importer) ==
  IF StartsWith(id, VIRTUAL_SCHEMA) THEN toVirtual(id)
  ELSE IF id = VIRTUAL THEN toVirtual(VIRTUAL)
  ELSE IF /\ importer # Undefined
          /\ StartsWith(importer, toVirtual(VIRTUAL_SCHEMA))
          /\ StartsWith(id, DotSlash)
  THEN IF importer \in DOMAIN map
       THEN pathResolve(dirname(map[importer].realPath), id)
       ELSE Null
  ELSE Undefined

(***************************************************************************)
(* The aggregate validator                                                 *)
(***************************************************************************)
Str(x) == <<"string", x>>
Num(x) == <<"number", x>>

\* a block of the input: its type and its fields (Undefined: no such field)
Block(type, title, heading, speed) ==
  [type |-> type, title |-> title, heading |-> heading, speed |-> speed]

\* JavaScript truthiness of block?.type, a string or undefined
Truthy(type) == type # Undefined /\ type # <<>>

\* a slip that takes the default for a check of its own
ParseFieldNoDefault(check, value) ==
  CASE check = "string" -> [ok |-> value[1] = "string", value |-> value]
    [] check = "numberDefault5" -> [ok |-> value[1] = "number", value |-> value]
    [] OTHER -> [ok |-> TRUE, value |-> Undefined]

\* one field under its validator: z.string(), z.number().default(5.0), or a key
\* the shape does not have, which z.object strips
ParseField(check, value) ==
  CASE check = "string" -> [ok |-> value[1] = "string", value |-> value]
    [] check = "numberDefault5" ->
         IF value = Undefined THEN [ok |-> TRUE, value |-> Num("5")]
         ELSE [ok |-> value[1] = "number", value |-> value]
    [] OTHER -> [ok |-> TRUE, value |-> Undefined]

\* z.object({ type: z.literal(block.type), ...block.schema(c) }) on element i
ParseObject(option, block, i) ==
  LET shape == Shape(option.shape)
      parsed == [f \in Fields |-> ParseField(shape[f], block[f])]
  IN [issues |-> {<<i, f>> : f \in {g \in Fields : ~parsed[g].ok}},
      value |-> Block(block.type, parsed["title"].value, parsed["heading"].value,
                      parsed["speed"].value)]

\* z.discriminatedUnion('type', options) on element i
ParseUnion(options, block, i) ==
  IF \E k \in 1..Len(options) : options[k].type = block.type
  THEN ParseObject(options[CHOOSE k \in 1..Len(options) : options[k].type = block.type],
                   block, i)
  ELSE [issues |-> {<<i, "type">>}, value |-> block]

\* z.array(z.discriminatedUnion('type', options)).safeParse(data)
ParseArray(options, data) ==
  LET each == [i \in 1..Len(data) |-> ParseUnion(options, data[i], i)]
      issues == UNION {each[i].issues : i \in 1..Len(data)}
  IN [ok |-> issues = {}, issues |-> issues,
      data |-> IF issues = {} THEN [i \in 1..Len(data) |-> each[i].value] ELSE <<>>]

RECURSIVE SelectKnown(_, _)
\* data.filter(block => !(block?.type && !validTypes.has(block.type)))
SelectKnown(data, validTypes) ==
  IF data = <<>> THEN <<>>
  ELSE IF Truthy(Head(data).type) /\ Head(data).type \notin validTypes
  THEN SelectKnown(Tail(data), validTypes)
  ELSE <<Head(data)>> \o SelectKnown(Tail(data), validTypes)

RECURSIVE UnknownTypes(_, _)
\* the warnings array: the type of each block the filter drops, in order
UnknownTypes(data, validTypes) ==
  IF data = <<>> THEN <<>>
  ELSE IF Truthy(Head(data).type) /\ Head(data).type \notin validTypes
  THEN <<Head(data).type>> \o UnknownTypes(Tail(data), validTypes)
  ELSE UnknownTypes(Tail(data), validTypes)

UnknownWarning(types) ==
  [level |-> "warn", msg |-> "UnknownTypes", path |-> <<>>, type |-> <<>>,
   other |-> <<>>, types |-> types]

\* Object.values(registry.components).map(block => z.object({...}))
Options(reg) ==
  [i \in 1..Len(reg) |-> [type |-> reg[i].type, shape |-> reg[i].schema.shape]]

\* a slip that forgets the empty registry
parseBlocksNoEmptyCase(rev, reg) ==
  [validator |-> [kind |-> "array", options |-> Options(reg),
                  validTypes |-> {reg[i].type : i \in 1..Len(reg)}],
   logged |-> <<>>]

\* parseBlocks(c): the validator it returns and what it logs. src/unnamed/part_004
\* returns the bare array of the union, src/src/integration.ts and
\* src/unnamed/part_003 put the filter before it
parseBlocks(rev, reg) ==
  IF reg = <<>>
  THEN [validator |-> [kind |-> "any", options |-> <<>>, validTypes |-> {}],
        logged |-> <<Log("warn", "NoBlocks", <<>>, <<>>, <<>>)>>]
  ELSE [validator |->
          [kind |-> IF rev = "part_004" THEN "array"
                    ELSE IF rev = "integration" THEN "preprocess"
                    ELSE "preprocessAlwaysWarn",
           options |-> Options(reg),
           validTypes |-> {reg[i].type : i \in 1..Len(reg)}],
        logged |-> <<>>]

\* a slip that filters every block that would not validate
RunValidatorDropInvalid(v, data) ==
  LET keep == SelectKnown(data, v.validTypes)
      each == [i \in 1..Len(keep) |-> ParseUnion(v.options, keep[i], i)]
      good == {i \in 1..Len(keep) : each[i].issues = {}}
  IN [ok |-> TRUE, issues |-> {}, filtered |-> keep, logged |-> <<>>,
      data |-> IF good = 1..Len(keep) THEN [i \in 1..Len(keep) |-> each[i].value]
               ELSE <<>>]

\* running the validator parseBlocks returned on data, an array
RunValidator(v, data) ==
  IF v.kind = "any"
  THEN [ok |-> TRUE, issues |-> {}, data |-> data, filtered |-> data, logged |-> <<>>]
  ELSE IF v.kind = "array"
  THEN LET r == ParseArray(v.options, data)
       IN [ok |-> r.ok, issues |-> r.issues, data |-> r.data, filtered |-> data,
           logged |-> <<>>]
  ELSE LET filtered == SelectKnown(data, v.validTypes)
           warnings == UnknownTypes(data, v.validTypes)
           r == ParseArray(v.options, filtered)
       IN [ok |-> r.ok, issues |-> r.issues, data |-> r.data, filtered |-> filtered,
           logged |-> IF v.kind = "preprocessAlwaysWarn" \/ Len(warnings) > 0
                      THEN <<UnknownWarning(warnings)>>
                      ELSE <<>>]

(***************************************************************************)
(* Inputs                                                                  *)
(***************************************************************************)
\* the longest input array handed to a validator
MaxInput == 2

Revisions == {"part_004", "integration", "part_003"}

AstroPaths == {PathAHero, PathBHero, PathAHeroSection, PathAHeroSnake}

PathTs == <<"/", "a", "/", "x", ".", "t", "s">>

SchemaHero == createSchema(Hero, Builder("hero", "raw"))
SchemaHeroTitle == createSchema(Hero, Builder("heroTitle", "raw"))
SchemaHeroSection == createSchema(HeroSection, Builder("cta", "raw"))
SchemaUntyped == createSchemaUntyped(Builder("cta", "raw"))
SchemaForeign == [SchemaHero EXCEPT !.rid = ForeignId]
SchemaNotCallable == [SchemaHero EXCEPT !.callable = FALSE]

NoFrontmatter == File("nofrontmatter", Builder("none", "nonobject"))
NoSchemaExport == File("noschema", Builder("none", "nonobject"))

\* export const schema = (c) => ({ title: c.string(), speed: c.number().default(5.0) }):
\* a function that createSchema did not make
PlainHeroFile == File("schema", Builder("hero", "raw"))

\* what the file at a path can hold over a session, per revision: schema
\* exports made by that revision's createSchema, and values that were not.
\* The two Hero files declare the same type; /a/Hero.astro changes its builder
Files(rev, path) ==
  IF rev = "part_004"
  THEN CASE path = PathAHero ->
              {NoFrontmatter, File("schema", SchemaHero), File("schema", SchemaHeroTitle),
               File("schema", SchemaNotCallable), PlainHeroFile}
         [] path = PathBHero ->
              {NoSchemaExport, File("schema", SchemaHero), File("schema", SchemaUntyped),
               File("schema", SchemaForeign)}
         [] OTHER -> {File("schema", SchemaHeroSection)}
  ELSE IF rev = "integration"
  THEN CASE path = PathAHero ->
              {NoFrontmatter, File("schema", createSchemaUntyped(Builder("hero", "raw"))),
               File("schema", createSchemaUntyped(Builder("heroTitle", "raw"))),
               PlainHeroFile}
         [] path = PathBHero ->
              {NoSchemaExport, File("schema", createSchemaUntyped(Builder("hero", "raw"))),
               File("schema", SchemaForeign), File("schema", SchemaNotCallable),
               File("schema", Builder("hero", "raw"))}
         [] OTHER -> {File("schema", SchemaUntyped)}
  ELSE CASE path = PathAHero ->
              {NoSchemaExport, File("schema", Builder("hero", "raw")),
               File("schema", Builder("heroTitle", "raw")),
               File("schema", [Builder("hero", "raw") EXCEPT !.callable = FALSE])}
         [] path = PathBHero ->
              {File("schema", Builder("hero", "raw")), File("schema", Builder("hero", "zobject")),
               File("schema", Builder("hero", "nonobject"))}
         [] OTHER -> {File("schema", Builder("cta", "raw"))}

BlockHero == Block(Hero, Str("x"), Undefined, Undefined)
BlockHeroNoTitle == Block(Hero, Undefined, Undefined, Undefined)
BlockCTA == Block(CTA, Undefined, Str("y"), Undefined)
BlockNoType == Block(Undefined, Undefined, Str("y"), Undefined)

Blocks == {BlockHero, BlockHeroNoTitle, BlockCTA, BlockNoType}

Inputs == UNION {[1..n -> Blocks] : n \in 0..MaxInput}

(***************************************************************************)
(* The state machine                                                       *)
(***************************************************************************)
NoValidator == [kind |-> "none", options |-> <<>>, validTypes |-> {}]

\* no scan of the source tree is under way
NoScan == [files |-> <<>>, status |-> "none"]

Init ==
  /\ revision \in Revisions
  /\ components = <<>>
  /\ virtualModules = <<>>
  /\ validator = NoValidator
  /\ logged = <<>>
  /\ last = [op |-> "none"]
  /\ tasks = <<>>
  /\ scan = NoScan

\* the key a registration of schema from path is stored under
TypeIdOf(rev, path, schema) ==
  IF rev = "part_004" THEN PropertyKey(schema.type) ELSE PropertyKey(getType(path))

\* the code the store held for a path
StoredFor(map, path) ==
  IF \E id \in DOMAIN map : map[id].realPath = path
  THEN map[CHOOSE id \in DOMAIN map : map[id].realPath = path].code
  ELSE NoCode

\* the record of a registration attempt: its inputs, whether it wrote the store
\* (stored), whether it reached the registration function (called), what that
\* returned, and what the registry and the store held for it before
Registration(path, file, r, ret) ==
  [op |-> "register", path |-> path, file |-> file, stored |-> r.stored,
   called |-> r.called, ret |-> ret, replaced |-> StoredFor(virtualModules, path),
   typeId |-> TypeIdOf(revision, path, file.schema),
   prior |-> Get(components, TypeIdOf(revision, path, file.schema))]

\* src/unnamed/part_004: configureServer awaits resolve(file, ...) for a file
ResolveFile(realPath, file) ==
  /\ revision = "part_004"
  /\ LET r == resolve(virtualModules, components, realPath, file)
     IN /\ virtualModules' = r.virtualModules
        /\ components' = r.components
        /\ logged' = r.logged
        /\ last' = Registration(realPath, file, r, FALSE)
  /\ UNCHANGED <<tasks, scan, revision, validator>>

\* src/src/integration.ts: one round of configureServer.handler's loop
HandlerRound(path, file) ==
  /\ revision = "integration"
  /\ LET r == handler(virtualModules, components, path, file)
     IN /\ virtualModules' = r.virtualModules
        /\ components' = r.components
        /\ logged' = r.logged
        /\ last' = Registration(path, file, r, r.ret)
  /\ UNCHANGED <<tasks, scan, revision, validator>>

\* src/unnamed/part_003: server.watcher.on('change') for a path whose module
\* now is what the file holds
WatcherChange(path, file) ==
  /\ revision = "part_003"
  /\ IF ~EndsWith(path, DotAstro)
     THEN /\ UNCHANGED components
          /\ logged' = <<>>
          /\ last' = [op |-> "ignored", path |-> path]
     ELSE LET block == [exported |-> file.kind = "schema", schema |-> file.schema]
              r == buildAstroBlockWatch(components, path, block)
          IN /\ components' = r.components
             /\ logged' = r.logged
             /\ last' = Registration(path, file,
                                     [stored |-> FALSE, called |-> TRUE], r.ret)
  /\ UNCHANGED <<tasks, scan, revision, virtualModules, validator>>

\* src/unnamed/part_003: server.watcher.on('unlink')
WatcherUnlink(path) ==
  /\ revision = "part_003"
  /\ components' = IF EndsWith(path, DotAstro)
                   THEN Without(components, PropertyKey(getType(path)))
                   ELSE components
  /\ logged' = <<>>
  /\ last' = [op |-> "unlink", path |-> path]
  /\ UNCHANGED <<tasks, scan, revision, virtualModules, validator>>

\* the host loads a schema module by its virtual id
LoadModule(id) ==
  /\ revision \in {"part_004", "integration"}
  /\ last' = [op |-> "load", id |-> id,
              code |-> IF revision = "part_004" THEN load(virtualModules, id)
                       ELSE loadSchemaModule(virtualModules, id)]
  /\ logged' = <<>>
  /\ UNCHANGED <<tasks, scan, revision, components, virtualModules, validator>>

\* a line of the components module: an import of ident from a path, the
\* opening of the exported object, one of its properties, or its closing
Line(kind, ident, from, key) == [kind |-> kind, ident |-> ident, from |-> from, key |-> key]

\* a slip that leaves the first import out
ImportLinesButFirst(rev, reg) ==
  [i \in 1..(Len(reg) - 1) |->
     Line("import", IF rev = "part_004" THEN reg[i + 1].key ELSE toIdentifier(reg[i + 1].type),
          reg[i + 1].path, <<>>)]

\* blocks.map((b) => `import ${b.type} from '${b.path}';`), and integration.ts's
\* `import ${toIdentifier(block.type)} from '${block.path}';`
ImportLines(rev, reg) ==
  [i \in 1..Len(reg) |->
     Line("import", IF rev = "part_004" THEN reg[i].key ELSE toIdentifier(reg[i].type),
          reg[i].path, <<>>)]

\* blocks.map((b) => `'${b.type}': ${b.type},`), and integration.ts's
\* `'${block.type}': ${toIdentifier(block.type)}`
MapLines(rev, reg) ==
  [i \in 1..Len(reg) |->
     Line("property", IF rev = "part_004" THEN reg[i].key ELSE toIdentifier(reg[i].type),
          <<>>, reg[i].key)]

\* load(VIRTUAL_NAME) of src/unnamed/part_004 and load(virtual(VIRTUAL)) of
\* src/src/integration.ts: the text of the components module, line by line
loadComponents(rev, reg) ==
  ImportLines(rev, reg)
  \o <<Line(IF rev = "part_004" THEN "export default {" ELSE "export const components = {",
            <<>>, <<>>, <<>>)>>
  \o MapLines(rev, reg)
  \o <<Line("};", <<>>, <<>>, <<>>)>>

\* the host loads the components module
LoadComponents ==
  /\ revision \in {"part_004", "integration"}
  /\ last' = [op |-> "loadComponents",
              id |-> IF revision = "part_004" THEN VIRTUAL_NAME ELSE toVirtual(VIRTUAL),
              lines |-> loadComponents(revision, components)]
  /\ logged' = <<>>
  /\ UNCHANGED <<tasks, scan, revision, components, virtualModules, validator>>

\* the specifiers the host asks the plugin to resolve
SpecifierUtil == <<".", "/", "u", ".", "t", "s">>
SpecifierUp == <<".", "/", ".", ".", "/", "u", ".", "t", "s">>
SpecifierZod == <<"z", "o", "d">>
Specifiers == {SpecifierUtil, SpecifierUp, SpecifierZod}

\* the host asks the plugin to resolve specifier id, imported by importer
ResolveImport(id, importer) ==
  /\ revision \in {"part_004", "integration"}
  /\ last' = [op |-> "resolveId", id |-> id, importer |-> importer,
              result |-> IF revision = "part_004"
                         THEN resolveId(virtualModules, id, importer)
                         ELSE resolveIdSchema(virtualModules, id, importer)]
  /\ logged' = <<>>
  /\ UNCHANGED <<tasks, scan, revision, components, virtualModules, validator>>

\* the content configuration calls parseBlocks(c) and keeps the validator
ParseBlocksCall ==
  /\ validator' = parseBlocks(revision, components).validator
  /\ logged' = parseBlocks(revision, components).logged
  /\ last' = [op |-> "parseBlocks", empty |-> components = <<>>]
  /\ UNCHANGED <<tasks, scan, revision, components, virtualModules>>

\* the content pipeline runs the validator it holds on an entry's blocks
Validate(data) ==
  /\ validator.kind # "none"
  /\ LET r == RunValidator(validator, data)
     IN /\ logged' = r.logged
        /\ last' = [op |-> "validate", input |-> data, ok |-> r.ok, data |-> r.data,
                    issues |-> r.issues, filtered |-> r.filtered]
  /\ UNCHANGED <<tasks, scan, revision, components, virtualModules, validator>>

\* the registry and store operations, over the files a revision can meet
Register(paths, rev) ==
  \/ \E p \in paths : \E f \in Files(rev, p) : ResolveFile(p, f)
  \/ \E p \in paths : \E f \in Files(rev, p) : HandlerRound(p, f)
  \/ \E p \in paths \cup {PathTs} : \E f \in Files(rev, p) : WatcherChange(p, f)
  \/ \E p \in paths \cup {PathTs} : WatcherUnlink(p)
  \/ \E p \in paths :
       LoadModule(IF rev = "part_004" THEN virtualIdOf(p) ELSE virtualSchemaIdOf(p))
  \/ LoadComponents
  \/ \E p \in paths : \E id \in Specifiers :
       ResolveImport(id, IF rev = "part_004" THEN virtualIdOf(p) ELSE virtualSchemaIdOf(p))

Next == Register(AstroPaths, revision)

\* the registry and the virtual-module store
Spec == Init /\ [][Next]_vars

ValidatePaths == {PathAHero, PathAHeroSection}

NextValidate ==
  \/ Register(ValidatePaths, revision)
  \/ ParseBlocksCall
  \/ \E d \in Inputs : Validate(d)

\* the registry of two files, and the validators built from it and run
SpecValidate == Init /\ [][NextValidate]_vars

(***************************************************************************)
(* Sanitization on its own: every string up to MaxLen over Alphabet        *)
(***************************************************************************)
\* the longest string handed to sanitizeType / toIdentifier
MaxLen == 3

\* a letter, a digit, two characters outside the class, and the two
\* non-alphanumeric characters inside it
Alphabet == {"a", "7", "-", ".", "_", "$"}

Strings == UNION {[1..n -> Alphabet] : n \in 0..MaxLen}

\* sanitizeType of src/src/schema.ts, toIdentifier of src/src/integration.ts
Sanitizer(rev, str) == IF rev = "part_004" THEN sanitizeType(str) ELSE toIdentifier(str)

InitSanitize ==
  /\ revision \in {"part_004", "integration"}
  /\ components = <<>>
  /\ virtualModules = <<>>
  /\ validator = NoValidator
  /\ logged = <<>>
  /\ tasks = <<>>
  /\ scan = NoScan
  /\ \E str \in Strings : last = [op |-> "string", str |-> str]

\* sanitizeType(str)
Sanitize ==
  /\ last.op = "string"
  /\ last' = [op |-> "sanitized", str |-> last.str, out |-> Sanitizer(revision, last.str)]
  /\ UNCHANGED <<tasks, scan, revision, components, virtualModules, validator, logged>>

\* sanitizeType(sanitizeType(str))
SanitizeAgain ==
  /\ last.op = "sanitized"
  /\ last' = [op |-> "resanitized", str |-> last.str, once |-> last.out,
              out |-> Sanitizer(revision, last.out)]
  /\ UNCHANGED <<tasks, scan, revision, components, virtualModules, validator, logged>>

NextSanitize == Sanitize \/ SanitizeAgain

SpecSanitize == InitSanitize /\ [][NextSanitize]_vars

(***************************************************************************)
(* Handlers in flight: one run of resolve (src/unnamed/part_004), of a     *)
(* round of configureServer.handler (src/src/integration.ts) or of the     *)
(* change watcher (src/unnamed/part_003), as the steps between its awaits  *)
(***************************************************************************)
\* the handler has not read the file yet
NoRead == File("unread", Builder("none", "nonobject"))

\* ssrLoadModule has not returned yet
NoModule == [exported |-> FALSE, schema |-> Builder("none", "nonobject")]

\* a handler started for path, whose file now holds event: resolve and the
\* handler's round await fs.readFile first, the watcher awaits ssrLoadModule
NewTask(rev, path, event) ==
  [path |-> path, event |-> event, file |-> NoRead, module |-> NoModule, logged |-> <<>>,
   pc |-> IF rev # "part_003" THEN "read"
          ELSE IF EndsWith(path, DotAstro) THEN "load" ELSE "done"]

\* what the file at the path of handler k holds now: what the latest event
\* for that path wrote
Disk(ts, k) ==
  ts[CHOOSE j \in 1..Len(ts) :
       /\ ts[j].path = ts[k].path
       /\ \A i \in 1..Len(ts) : ts[i].path = ts[k].path => i <= j].event

\* from the file's text to the call of esbuild.build: where the handler is
\* next and what it logged. A metadata block that does not parse leaves
\* ast.errors in part_004 (errorRecovery) and makes parse throw in integration.ts
Extract(rev, path, file) ==
  IF file.kind = "nofrontmatter"
  THEN [pc |-> "done",
        logged |-> IF rev = "part_004"
                   THEN <<Log("warn", "NoFrontmatter", path, <<>>, <<>>)>>
                   ELSE <<>>]
  ELSE IF file.kind = "parseerror"
  THEN [pc |-> IF rev = "part_004" THEN "done" ELSE "failed", logged |-> <<>>]
  ELSE IF file.kind = "noschema"
  THEN [pc |-> "done", logged |-> <<>>]
  ELSE [pc |-> "bundle", logged |-> <<>>]

\* esbuild.build has settled: it rejects for kind "bundleerror" (an import it
\* cannot resolve, a syntax error), gives empty text for "emptyoutput", and
\* else the code, which the handler puts in the store
Bundled(rev, map, path, file) ==
  LET id == IF rev = "part_004" THEN virtualIdOf(path) ELSE virtualSchemaIdOf(path)
  IN IF file.kind = "bundleerror"
     THEN [pc |-> "failed", virtualModules |-> map, logged |-> <<>>]
     ELSE IF file.kind = "emptyoutput"
     THEN IF rev = "part_004"
          THEN [pc |-> "done", virtualModules |-> map,
                logged |-> <<Log("warn", "NoOutput", path, <<>>, <<>>)>>]
          ELSE [pc |-> "load", logged |-> <<>>,
                virtualModules |-> MapSet(map, id, [code |-> NoCode, realPath |-> path])]
     ELSE [pc |-> "load", logged |-> <<>>,
           virtualModules |-> MapSet(map, id, [code |-> Bundle(file), realPath |-> path])]

\* server.ssrLoadModule: the host loads and evaluates the module, from the
\* store as it is then, or (part_003) from the file as it is then
Loaded(rev, map, path, disk) ==
  IF rev = "part_004" THEN Evaluate(load(map, virtualIdOf(path)))
  ELSE IF rev = "integration" THEN Evaluate(loadSchemaModule(map, virtualSchemaIdOf(path)))
  ELSE [exported |-> disk.kind = "schema", schema |-> disk.schema]

\* the handler's last step, with the module ssrLoadModule returned
Registered(rev, reg, path, module) ==
  IF rev = "part_003"
  THEN LET r == buildAstroBlockWatch(reg, path, module)
       IN [components |-> r.components, logged |-> r.logged]
  ELSE IF ~module.exported
  THEN [components |-> reg, logged |-> <<>>]
  ELSE IF rev = "part_004"
  THEN constructSchema(reg, path, module.schema)
  ELSE LET r == buildAstroBlock(reg, path, module.schema)
       IN [components |-> r.components, logged |-> r.logged]

\* fs.readFile and the parse have returned in handler k
TaskRead(k) ==
  /\ tasks[k].pc = "read"
  /\ LET file == Disk(tasks, k)
         r == Extract(revision, tasks[k].path, file)
     IN /\ tasks' = [tasks EXCEPT ![k].file = file, ![k].pc = r.pc, ![k].logged = r.logged]
        /\ logged' = r.logged
  /\ last' = [op |-> "task", step |-> "read", task |-> k]
  /\ UNCHANGED <<revision, components, virtualModules, validator, scan>>

\* esbuild.build has settled in handler k; for a file of kind "neverbundles"
\* it never does
TaskBundle(k) ==
  /\ tasks[k].pc = "bundle"
  /\ tasks[k].file.kind # "neverbundles"
  /\ LET r == Bundled(revision, virtualModules, tasks[k].path, tasks[k].file)
     IN /\ tasks' = [tasks EXCEPT ![k].pc = r.pc, ![k].logged = @ \o r.logged]
        /\ virtualModules' = r.virtualModules
        /\ logged' = r.logged
  /\ last' = [op |-> "task", step |-> "bundle", task |-> k]
  /\ UNCHANGED <<revision, components, validator, scan>>

\* the host has loaded the module handler k asked for
TaskLoad(k) ==
  /\ tasks[k].pc = "load"
  /\ tasks' = [tasks EXCEPT ![k].pc = "loaded",
                            ![k].module = Loaded(revision, virtualModules, tasks[k].path,
                                                 Disk(tasks, k))]
  /\ logged' = <<>>
  /\ last' = [op |-> "task", step |-> "load", task |-> k]
  /\ UNCHANGED <<revision, components, virtualModules, validator, scan>>

\* handler k goes on after ssrLoadModule and registers what the module exports
TaskRegister(k) ==
  /\ tasks[k].pc = "loaded"
  /\ LET r == Registered(revision, components, tasks[k].path, tasks[k].module)
     IN /\ components' = r.components
        /\ tasks' = [tasks EXCEPT ![k].pc = "done", ![k].logged = @ \o r.logged]
        /\ logged' = r.logged
  /\ last' = [op |-> "task", step |-> "register", task |-> k]
  /\ UNCHANGED <<revision, virtualModules, validator, scan>>

\* a step of one of the handlers in flight
TaskStep ==
  \/ \E k \in 1..Len(tasks) : TaskRead(k)
  \/ \E k \in 1..Len(tasks) : TaskBundle(k)
  \/ \E k \in 1..Len(tasks) : TaskLoad(k)
  \/ \E k \in 1..Len(tasks) : TaskRegister(k)

(***************************************************************************)
(* A scan: configureServer awaits the handler of each file in turn         *)
(***************************************************************************)
\* the most files in a scan
MaxScan == 2

PathBCTA == <<"/", "b", "/", "C", "T", "A", ".", "a", "s", "t", "r", "o">>

ScanPaths == {PathAHero, PathAHeroSection, PathBCTA}

\* a file of the scan whose pipeline succeeds, declaring the type of its name
ValidFile(rev, path) ==
  File("schema",
       IF rev = "part_004" THEN createSchema(getType(path), Builder("cta", "raw"))
       ELSE createSchemaUntyped(Builder("cta", "raw")))

\* the kinds of file the scan skips
SoftFailures == {"nofrontmatter", "noschema", "parseerror", "bundleerror", "emptyoutput"}

\* what a scan finds at a path: /a/Hero.astro is any kind of file
ScanFiles(rev, path) ==
  IF path = PathAHero
  THEN {ValidFile(rev, path), [ValidFile(rev, path) EXCEPT !.kind = "neverbundles"]}
       \cup {[ValidFile(rev, path) EXCEPT !.kind = kind] : kind \in SoftFailures}
  ELSE {ValidFile(rev, path)}

\* the scans: up to MaxScan files at distinct paths, in the order of the glob
Scans(rev) ==
  {q \in UNION {[1..n -> [path : ScanPaths, file : UNION {ScanFiles(rev, p) : p \in ScanPaths}]]
                  : n \in 0..MaxScan} :
     /\ \A i \in 1..Len(q) : q[i].file \in ScanFiles(rev, q[i].path)
     /\ \A i, j \in 1..Len(q) : q[i].path = q[j].path => i = j}

InitScan ==
  /\ revision \in {"part_004", "integration"}
  /\ components = <<>>
  /\ virtualModules = <<>>
  /\ validator = NoValidator
  /\ logged = <<>>
  /\ last = [op |-> "none"]
  /\ tasks = <<>>
  /\ \E q \in Scans(revision) : scan = [files |-> q, status |-> "running"]

\* the loop takes the next file once the handler of the one before has returned
ScanNext ==
  /\ scan.status = "running"
  /\ Len(tasks) < Len(scan.files)
  /\ tasks # <<>> => tasks[Len(tasks)].pc = "done"
  /\ tasks' = Append(tasks, NewTask(revision, scan.files[Len(tasks) + 1].path,
                                    scan.files[Len(tasks) + 1].file))
  /\ logged' = <<>>
  /\ last' = [op |-> "scan", step |-> "next"]
  /\ UNCHANGED <<revision, components, virtualModules, validator, scan>>

\* the loop is through its files
ScanEnd ==
  /\ scan.status = "running"
  /\ Len(tasks) = Len(scan.files)
  /\ tasks # <<>> => tasks[Len(tasks)].pc = "done"
  /\ scan' = [scan EXCEPT !.status = "done"]
  /\ logged' = <<>>
  /\ last' = [op |-> "scan", step |-> "end"]
  /\ UNCHANGED <<revision, components, virtualModules, validator, tasks>>

\* the awaited handler rejected: nothing catches it, configureServer rejects
ScanAbort ==
  /\ scan.status = "running"
  /\ tasks # <<>>
  /\ tasks[Len(tasks)].pc = "failed"
  /\ scan' = [scan EXCEPT !.status = "aborted"]
  /\ logged' = <<>>
  /\ last' = [op |-> "scan", step |-> "abort"]
  /\ UNCHANGED <<revision, components, virtualModules, validator, tasks>>

NextScan == ScanNext \/ ScanEnd \/ ScanAbort \/ TaskStep

\* one scan of the source tree
SpecScan == InitScan /\ [][NextScan]_vars

(***************************************************************************)
(* Overlapping events for one path: a handler starts while another for the *)
(* same file is between two of its awaits                                  *)
(***************************************************************************)
\* the most handlers in flight for the path
MaxTasks == 2

\* the file changed to hold file, and the revision's handler starts for it
FileEvent(path, file) ==
  /\ Len(tasks) < MaxTasks
  /\ tasks' = Append(tasks, NewTask(revision, path, file))
  /\ logged' = <<>>
  /\ last' = [op |-> "event", path |-> path, file |-> file]
  /\ UNCHANGED <<revision, components, virtualModules, validator, scan>>

NextOverlap ==
  \/ \E f \in Files(revision, PathAHero) : FileEvent(PathAHero, f)
  \/ TaskStep

\* the handlers of successive events for /a/Hero.astro, their steps interleaved
SpecOverlap == Init /\ [][NextOverlap]_vars

(***************************************************************************)
(* Export isolation on its own: the snippet handed to esbuild for every    *)
(* metadata block of up to MaxBody statements                              *)
(***************************************************************************)
\* the most statements in a metadata block
MaxBody == 3

\* a top-level statement of the block: the node type, the type of the
\* declaration an export holds, and the identifiers that declaration binds
Statement(type, declaration, names) ==
  [type |-> type, declaration |-> declaration, names |-> names]

ImportZod == Statement("ImportDeclaration", "none", <<"z">>)
ImportUtil == Statement("ImportDeclaration", "none", <<"util">>)
ExportSchema == Statement("ExportNamedDeclaration", "VariableDeclaration", <<"schema">>)
ExportSeo == Statement("ExportNamedDeclaration", "VariableDeclaration", <<"seo">>)
ExportOther == Statement("ExportNamedDeclaration", "VariableDeclaration", <<"other">>)
ConstX == Statement("VariableDeclaration", "none", <<"x">>)

Statements == {ImportZod, ImportUtil, ExportSchema, ExportSeo, ExportOther, ConstX}

\* the blocks: up to MaxBody statements, each at most once
Bodies ==
  {b \in UNION {[1..n -> Statements] : n \in 0..MaxBody} :
     \A i, j \in 1..Len(b) : b[i] = b[j] => i = j}

REQUIRED_EXPORTS == <<"schema">>
OPTIONAL_EXPORTS == <<"seo">>

\* the elements of a sequence
Range(seq) == {seq[i] : i \in 1..Len(seq)}

\* getExportNames(node)
getExportNames(node) ==
  IF node.type = "ExportNamedDeclaration" /\ node.declaration = "VariableDeclaration"
  THEN node.names
  ELSE <<>>

\* ast.program.body.filter((node) => node.type === 'ImportDeclaration')
ImportsOf(body) == SelectSeq(body, LAMBDA node : node.type = "ImportDeclaration")

\* ast.program.body.filter((node) => getExportNames(node).some((name) =>
\*   [...REQUIRED_EXPORTS, ...OPTIONAL_EXPORTS].includes(name)))
ExportsOf(body) ==
  SelectSeq(body, LAMBDA node :
    Range(getExportNames(node)) \cap Range(REQUIRED_EXPORTS \o OPTIONAL_EXPORTS) # {})

\* REQUIRED_EXPORTS.filter((exp) => !exports.flatMap(getExportNames).includes(exp))
requiredExports(exports) ==
  SelectSeq(REQUIRED_EXPORTS,
            LAMBDA exp : exp \notin UNION {Range(getExportNames(exports[i])) : i \in 1..Len(exports)})

\* the contents resolve of src/unnamed/part_004 hands to esbuild.build, when
\* it gets that far
Snippet(body) ==
  IF Len(requiredExports(ExportsOf(body))) > 0
  THEN [made |-> FALSE, code |-> <<>>]
  ELSE [made |-> TRUE, code |-> ImportsOf(body) \o ExportsOf(body)]

\* codeToBundle of src/src/integration.ts: the imports and schemaExport, the
\* first ExportNamedDeclaration of the block
codeToBundle(body) ==
  LET found == SelectSeq(body, LAMBDA node : node.type = "ExportNamedDeclaration")
  IN IF found = <<>>
     THEN [made |-> FALSE, code |-> <<>>]
     ELSE [made |-> TRUE, code |-> ImportsOf(body) \o <<Head(found)>>]

InitExtract ==
  /\ revision \in {"part_004", "integration"}
  /\ components = <<>>
  /\ virtualModules = <<>>
  /\ validator = NoValidator
  /\ logged = <<>>
  /\ tasks = <<>>
  /\ scan = NoScan
  /\ \E body \in Bodies : last = [op |-> "block", body |-> body]

\* the handler isolates the imports and exports of the block it parsed
ExtractSnippet ==
  /\ last.op = "block"
  /\ LET r == IF revision = "part_004" THEN Snippet(last.body) ELSE codeToBundle(last.body)
     IN last' = [op |-> "extracted", body |-> last.body, made |-> r.made, code |-> r.code]
  /\ UNCHANGED <<revision, components, virtualModules, validator, logged, tasks, scan>>

NextExtract == ExtractSnippet

SpecExtract == InitExtract /\ [][NextExtract]_vars

(***************************************************************************)
(* Properties                                                              *)
(***************************************************************************)
\* matches ^[A-Za-z_$][A-Za-z0-9_$]*$
IsIdentifier(str) ==
  /\ Len(str) > 0
  /\ str[1] \notin Digits
  /\ \A i \in 1..Len(str) : str[i] \in IdentChars

\* C8: sanitizing a sanitized string changes nothing:
\* sanitizeType(sanitizeType(s)) = sanitizeType(s) for every string s
SanitizeIdempotent == last.op = "resanitized" => last.out = last.once

\* C8 witness: a string that sanitizing changed in both ways (a replaced
\* character and a prefixed leading digit) has been sanitized twice
SanitizedTwice ==
  /\ last.op = "resanitized"
  /\ last.str = <<"7", "-", "a">>
  /\ last.once = <<"_", "7", "_", "a">>

\* C9: for every string s, the empty string included, sanitizeType(s) matches
\* ^[A-Za-z_$][A-Za-z0-9_$]*$: non-empty, no leading digit, only [A-Za-z0-9_$]
SanitizeWellFormed == last.op = "sanitized" => IsIdentifier(last.out)

\* a schema value the revision's registration function takes for a builder
Acceptable(rev, schema) ==
  IF rev = "part_003" THEN schema.callable /\ schema.returns = "raw"
  ELSE schema.callable /\ schema.rid = OwnId

\* the log entries that reject a registration as a duplicate
Rejections(log) == {i \in 1..Len(log) : log[i].msg = "Duplicate"}

\* C1: when a builder arrives from a path other than the one its typeId is
\* registered from, the registry keeps the first entry as it is and exactly
\* one rejection is logged
FirstRegistrationWins ==
  [][(/\ last'.op = "register"
      /\ last'.called
      /\ Acceptable(revision, last'.file.schema)
      /\ last'.prior # NoEntry
      /\ last'.prior.path # last'.path)
     => /\ components' = components
        /\ Cardinality(Rejections(logged')) = 1]_vars

\* C2: registering a path again with another builder puts that builder in the
\* entry of its typeId and leaves the number of entries as it was
ReRegistrationReplaces ==
  [][(/\ last'.op = "register"
      /\ last'.called
      /\ Acceptable(revision, last'.file.schema)
      /\ last'.prior # NoEntry
      /\ last'.prior.path = last'.path
      /\ last'.prior.schema # last'.file.schema)
     => /\ Get(components', last'.typeId).schema = last'.file.schema
        /\ Len(components') = Len(components)]_vars

\* C3: a candidate that is not callable, or carries no typeId, or carries a
\* registryId other than the registry's own, is not inserted: the registry is
\* unchanged and an error is logged
RegisterRejectsInvalid ==
  [][(/\ revision = "part_004"
      /\ last'.op = "register"
      /\ last'.called
      /\ ~(/\ last'.file.schema.callable
           /\ last'.file.schema.type # Undefined
           /\ last'.file.schema.rid = OwnId))
     => /\ components' = components
        /\ \E i \in 1..Len(logged') : logged'[i].level = "error"]_vars

\* what the host gets when it loads a schema module
HostLoad(rev, map, id) ==
  IF rev = "part_004" THEN load(map, id) ELSE loadSchemaModule(map, id)

\* C4: storing code for a path that has a virtual module keeps its virtualId
\* and replaces its code: afterwards exactly one id holds the path, it is the
\* id the path had, loading it yields the new code, and the modules of the
\* other paths are as they were
StoreLastWriteWins ==
  [][(last'.op = "register" /\ last'.stored)
     => LET p == last'.path
            before == {id \in DOMAIN virtualModules : virtualModules[id].realPath = p}
            after == {id \in DOMAIN virtualModules' : virtualModules'[id].realPath = p}
        IN /\ Cardinality(after) = 1
           /\ before # {} => after = before
           /\ \A id \in after :
                /\ virtualModules'[id].code = Bundle(last'.file)
                /\ HostLoad(revision, virtualModules', id) = Bundle(last'.file)
           /\ \A id \in DOMAIN virtualModules \ before :
                id \in DOMAIN virtualModules' /\ virtualModules'[id] = virtualModules[id]]_vars

\* C4 witness: a path was stored again with code other than the code it had
StoredAgainWithOtherCode ==
  /\ last.op = "register"
  /\ last.stored
  /\ last.replaced # NoCode
  /\ last.replaced # Bundle(last.file)
  /\ StoredFor(virtualModules, last.path) = Bundle(last.file)

\* contains only [A-Za-z0-9_$] and does not start with a digit
IsSanitized(str) ==
  /\ \A i \in 1..Len(str) : str[i] \in IdentChars
  /\ Len(str) > 0 => str[1] \notin Digits

\* the builders createSchema(type, builder) makes of the names and shapes used
CreatedSchemas ==
  {createSchema(t, Builder(sh, "raw")) : t \in {Hero, HeroSection},
                                         sh \in {"hero", "heroTitle", "cta"}}

\* C10 as claimed: every typeId an entry is stored under, self-declared through
\* createSchema or derived from the file name, is a sanitized identifier, as
\* the key and as the entry's type
TypeIdAlwaysSanitized ==
  \A i \in 1..Len(components) :
    (revision # "part_004" \/ components[i].schema \in CreatedSchemas)
      => IsSanitized(components[i].key) /\ IsSanitized(components[i].type)

\* C10: a typeId self-declared through createSchema(type, builder) is stored
\* sanitized, as the key and as the entry's type; a typeId derived from the file
\* name is the file name without its .astro extension, as written
TypeIdSanitizedWhenDeclared ==
  \A i \in 1..Len(components) :
    LET e == components[i]
    IN /\ (revision = "part_004" /\ e.schema \in CreatedSchemas)
            => IsSanitized(e.key) /\ e.type = e.key /\ e.type = e.schema.type
       /\ revision # "part_004"
            => /\ e.type = e.key
               /\ \E dir \in {<<"/", "a", "/">>, <<"/", "b", "/">>} :
                    e.path = dir \o e.key \o DotAstro

\* C10 witness: the builder declared as "h-s" is registered under "h_s"
DeclaredTypeStoredSanitized ==
  \E i \in 1..Len(components) :
    /\ components[i].schema = SchemaHeroSection
    /\ components[i].key = <<"h", "_", "s">>

\* the types the validator in hand was built with
KnownTypes == {validator.options[k].type : k \in 1..Len(validator.options)}

RECURSIVE KeepRegistered(_, _)
\* the blocks of data whose type is among known, in their order
KeepRegistered(data, known) ==
  IF data = <<>> THEN <<>>
  ELSE IF Head(data).type \in known
  THEN <<Head(data)>> \o KeepRegistered(Tail(data), known)
  ELSE KeepRegistered(Tail(data), known)

\* some warning of the log names every type of the set
WarningNames(log, types) ==
  \E i \in 1..Len(log) :
    /\ log[i].level = "warn"
    /\ \A t \in types : \E j \in 1..Len(log[i].types) : log[i].types[j] = t

\* C5: a validator built from a non-empty registry drops exactly the blocks
\* whose type is not registered, keeps the others in order and warns naming
\* the dropped types; with only Hero registered (title: string),
\* [{type:"Hero",title:"x"},{type:"CTA",heading:"y"}] succeeds with
\* [{type:"Hero",title:"x"}] and a warning that mentions "CTA"
UnknownTypesDropped ==
  (last.op = "validate" /\ validator.options # <<>>)
    => LET dropped == {last.input[i].type : i \in 1..Len(last.input)} \ KnownTypes
       IN /\ last.filtered = KeepRegistered(last.input, KnownTypes)
          /\ dropped # {} => WarningNames(logged, dropped)
          /\ (/\ validator.options = <<[type |-> Hero, shape |-> "heroTitle"]>>
              /\ last.input = <<BlockHero, BlockCTA>>)
               => /\ last.ok
                  /\ last.data = <<BlockHero>>
                  /\ WarningNames(logged, {CTA})

\* C6: a block of a registered type whose title is not the string its type
\* requires is not filtered out, and the validation fails with an issue at
\* that block's title
FieldErrorIsFatal ==
  last.op = "validate"
    => \A i \in 1..Len(last.input) :
         (\E k \in 1..Len(validator.options) :
            /\ validator.options[k].type = last.input[i].type
            /\ Shape(validator.options[k].shape)["title"] = "string"
            /\ last.input[i].title[1] # "string")
           => /\ ~last.ok
              /\ \E j \in 1..Len(last.filtered) :
                   last.filtered[j] = last.input[i] /\ <<j, "title">> \in last.issues

\* C6 witness: a filtering validator dropped an unknown block and failed on the
\* Hero block without a title that came after it
FailedOnKeptBlock ==
  /\ last.op = "validate"
  /\ validator.kind = "preprocess"
  /\ last.input = <<BlockCTA, BlockHeroNoTitle>>
  /\ last.filtered = <<BlockHeroNoTitle>>
  /\ ~last.ok
  /\ last.issues = {<<1, "title">>}

\* C7: parseBlocks on an empty registry logs exactly one warning, and the
\* validator it returns accepts every array and returns it as it is
EmptyRegistryAcceptsAll ==
  /\ (last.op = "parseBlocks" /\ components = <<>>)
       => /\ Len(logged) = 1
          /\ logged[1].level = "warn"
          /\ validator.options = <<>>
  /\ (last.op = "validate" /\ validator.options = <<>>)
       => /\ last.ok
          /\ last.data = last.input
          /\ last.filtered = last.input

\* C7 witness: the validator of an empty registry was run on blocks no type
\* would accept
EmptyValidatorRan ==
  /\ last.op = "validate"
  /\ validator.options = <<>>
  /\ last.input = <<BlockNoType, BlockHeroNoTitle>>
  /\ last.ok

\* C11: a registered entry stays, with its path and its schema, through every
\* step that is not an unlink of its typeId; only a registration from the
\* entry's own path may put another schema in it
EntryStaysUntilUnregistered ==
  [][\A i \in 1..Len(components) :
       ~(last'.op = "unlink" /\ PropertyKey(getType(last'.path)) = components[i].key)
       => /\ Has(components', components[i].key)
          /\ Get(components', components[i].key).path = components[i].path
          /\ \/ Get(components', components[i].key).schema = components[i].schema
             \/ last'.op = "register" /\ last'.path = components[i].path]_vars

\* the registry has an entry that came from path
IsRegistered(reg, path) == \E i \in 1..Len(reg) : reg[i].path = path

\* C12: in a scan, a file with no metadata block, with no schema export, that
\* does not parse or that does not bundle is left out of the registry and
\* logged, and the scan goes on: it never aborts, and once it is through,
\* every file of the scan whose pipeline succeeds is registered
ScanSkipsAndContinues ==
  /\ scan.status # "aborted"
  /\ \A k \in 1..Len(tasks) :
       tasks[k].pc = "done" /\ tasks[k].file.kind \in SoftFailures
       => /\ tasks[k].logged # <<>>
          /\ ~IsRegistered(components, tasks[k].path)
  /\ scan.status = "done"
     => \A k \in 1..Len(scan.files) :
          scan.files[k].file.kind = "schema" => IsRegistered(components, scan.files[k].path)

\* C13: a validation run gives what a validator built from the registry as it
\* is at the run gives: a type registered or unregistered since parseBlocks(c)
\* returned is known or unknown to the run as the registry has it then
ValidatorTracksRegistry ==
  last.op = "validate"
  => LET now == RunValidator(parseBlocks(revision, components).validator, last.input)
     IN /\ last.ok = now.ok
        /\ last.data = now.data
        /\ last.filtered = now.filtered
        /\ last.issues = now.issues

\* every handler that was started has returned
AllSettled == \A k \in 1..Len(tasks) : tasks[k].pc \in {"done", "failed"}

\* C14: once the handlers of two or more events for one path have all
\* settled, each event having written a schema the revision accepts, the
\* store entry and the registry entry of the path hold what the last event
\* wrote
OverlapLastEventWins ==
  (/\ Len(tasks) >= 2
   /\ AllSettled
   /\ \A k \in 1..Len(tasks) :
        /\ tasks[k].path = tasks[1].path
        /\ tasks[k].event.kind = "schema"
        /\ Acceptable(revision, tasks[k].event.schema))
  => LET later == tasks[Len(tasks)].event
         path == tasks[1].path
     IN /\ revision # "part_003" => StoredFor(virtualModules, path) = Bundle(later)
        /\ Get(components, TypeIdOf(revision, path, later.schema)).schema = later.schema
        /\ Get(components, TypeIdOf(revision, path, later.schema)).path = path

\* C15: a specifier starting with './' whose importer is a schema module of
\* the store resolves to the specifier joined to the directory of the
\* importer's originPath, not to the originPath
RelativeImportResolvesInOriginDir ==
  (/\ last.op = "resolveId"
   /\ StartsWith(last.id, DotSlash)
   /\ last.importer \in DOMAIN virtualModules)
  => /\ last.result = pathResolve(dirname(virtualModules[last.importer].realPath), last.id)
     /\ last.result # virtualModules[last.importer].realPath

NeverBundles(k) == tasks[k].pc = "bundle" /\ tasks[k].file.kind = "neverbundles"

\* C17: when the bundling of one file of a scan never completes and nothing
\* else can take a step any more, every other file of the scan whose pipeline
\* succeeds is registered
SlowBundleBlocksOnlyItsFile ==
  ((\E k \in 1..Len(tasks) : NeverBundles(k)) /\ ~ENABLED NextScan)
  => \A k \in 1..Len(scan.files) :
       scan.files[k].file.kind = "schema" => IsRegistered(components, scan.files[k].path)

\* the discriminators of data that the validator v does not know
UnknownOf(v, data) ==
  {data[i].type : i \in {j \in 1..Len(data) : /\ Truthy(data[j].type)
                                             /\ data[j].type \notin v.validTypes}}

\* C18: a validation call on an input with unknown discriminators logs exactly
\* one warning of unknown types, and that warning names each distinct unknown
\* discriminator once and nothing else
OneWarningDistinctTypes ==
  (/\ last.op = "validate"
   /\ validator.kind # "any"
   /\ UnknownOf(validator, last.input) # {})
  => /\ Cardinality({i \in 1..Len(logged) : logged[i].msg = "UnknownTypes"}) = 1
     /\ \A i \in 1..Len(logged) :
          logged[i].msg = "UnknownTypes"
          => /\ \A t \in UnknownOf(validator, last.input) :
                  Cardinality({j \in 1..Len(logged[i].types) : logged[i].types[j] = t}) = 1
             /\ \A j \in 1..Len(logged[i].types) :
                  logged[i].types[j] \in UnknownOf(validator, last.input)

\* the lines of a kind, in their order
LinesOf(lines, kind) == SelectSeq(lines, LAMBDA l : l.kind = kind)

\* C19: the text of the components module has one import per registry entry,
\* from the entry's path, and one property per entry, keyed by the entry's
\* typeId and holding the identifier that the import of the same entry
\* declares; it has no further import or property
ComponentsModuleMatchesRegistry ==
  last.op = "loadComponents"
  => LET imports == LinesOf(last.lines, "import")
         properties == LinesOf(last.lines, "property")
     IN /\ Len(imports) = Len(components)
        /\ Len(properties) = Len(components)
        /\ Len(last.lines) = 2 * Len(components) + 2
        /\ \A i \in 1..Len(components) :
             /\ imports[i].from = components[i].path
             /\ properties[i].key = components[i].key
             /\ properties[i].ident = imports[i].ident
        /\ \A i \in 1..Len(components) :
             Cardinality({j \in 1..Len(properties) : properties[j].key = components[i].key}) = 1

\* C19 witness: the components module was loaded with two types registered
ComponentsModuleOfTwo ==
  /\ last.op = "loadComponents"
  /\ Len(components) = 2
  /\ Len(LinesOf(last.lines, "import")) = 2
  /\ LinesOf(last.lines, "import")[1].from # LinesOf(last.lines, "import")[2].from

\* the exports of a block that bind name in a variable declaration, in order
ExportsBinding(body, name) ==
  SelectSeq(body, LAMBDA node : /\ node.type = "ExportNamedDeclaration"
                                /\ node.declaration = "VariableDeclaration"
                                /\ name \in Range(node.names))

\* C20: for a block that exports schema, the snippet is the block's imports
\* in source order, then the export binding schema, then the exports binding
\* seo, whatever the order of the exports in the block, and nothing else
SnippetIsImportsSchemaOptional ==
  (last.op = "extracted" /\ ExportsBinding(last.body, "schema") # <<>>)
  => /\ last.made
     /\ last.code = ImportsOf(last.body) \o ExportsBinding(last.body, "schema")
                    \o ExportsBinding(last.body, "seo")

\* the positions of data whose block has no discriminator: no type field, or
\* a type that is undefined or the empty string
Typeless(data) == {i \in 1..Len(data) : ~Truthy(data[i].type)}

\* C21: the preprocessing of a validation call drops the elements without a
\* discriminator as it drops those of an unknown type: none of them is in
\* the filtered sequence, and the call succeeds or fails as the validation of
\* the elements of known types does
TypelessBlocksDropped ==
  (/\ last.op = "validate"
   /\ validator.kind \in {"preprocess", "preprocessAlwaysWarn"}
   /\ Typeless(last.input) # {})
  => /\ Typeless(last.filtered) = {}
     /\ last.ok = ParseArray(validator.options, KeepRegistered(last.input, KnownTypes)).ok

\* C22: buildAstroBlock returns true exactly when it registered the file under
\* a typeId that had no entry right before the call; a registration over an
\* entry that was there, and a rejected or skipped one, return false
ReturnsTrueOnlyForNewType ==
  (/\ last.op = "register"
   /\ last.called
   /\ revision \in {"integration", "part_003"})
  => (last.ret <=> /\ last.prior = NoEntry
                   /\ last.file.kind = "schema"
                   /\ Get(components, last.typeId)
                        = Entry(getType(last.path), last.path, last.file.schema))

\* C23: the unlink of a path leaves every entry that was registered from
\* another path as it is, also one whose typeId the file name of the
\* unlinked path gives
UnlinkKeepsOtherOrigins ==
  [][last'.op = "unlink"
     => \A i \in 1..Len(components) :
          components[i].path # last'.path
          => Get(components', components[i].key) = components[i]]_vars

\* C24: no two import lines of the components module declare the same
\* identifier
ImportIdentifiersDistinct ==
  last.op = "loadComponents"
  => \A i, j \in 1..Len(LinesOf(last.lines, "import")) :
       LinesOf(last.lines, "import")[i].ident = LinesOf(last.lines, "import")[j].ident
       => i = j

====
